---- MODULE Spec2Model ----
(***************************************************************************)
(* Model of FUEL_APP.py, a Streamlit script.  One Streamlit session is     *)
(* modelled.  Every user interaction (password entry, sidebar widget       *)
(* change, file upload, button press) runs the widget's callback, if any,  *)
(* and then reruns the whole script top to bottom; an action of this       *)
(* module is one such interaction together with the rerun it causes.       *)
(*                                                                         *)
(* Numbers.  The code computes in binary floating point; the model         *)
(* computes the same expressions in exact arithmetic on scaled integers:   *)
(*   - band bounds and label heights in units of 1/Scale PSI;              *)
(*   - correction factors in thousandths;                                  *)
(*   - CSV cells are whole PSI values, times are tenths of a second;       *)
(*   - smoothed samples in units of 1/Denom PSI, Denom being the common    *)
(*     denominator of the Savitzky-Golay (window 9, order 3) weights.      *)
(* Python indices are 0-based, TLA+ sequences 1-based: iloc converts.      *)
(***************************************************************************)
EXTENDS Integers, Sequences, FiniteSets, TLC

VARIABLES
    session_state,   \* st.session_state: function from key to value
    wrongAttempts,   \* history: wrong passwords entered in a row (saturating)
    reg,             \* sidebar: registration text_input
    rpm_drop,        \* sidebar: selectbox label
    opts,            \* sidebar: <<un_p, un_s, met_b, id_p, id_s>>
    m_file,          \* max-RPM uploader: a file name or NoFile
    i_file,          \* idle-RPM uploader: a file name or NoFile
    rendered,        \* elements the last script run put on the page, in order
    charts,          \* figures the last run passed to st.plotly_chart
    pdf,             \* pages of the FPDF object built by the last run
    download,        \* <<>> or <<payload>> of the st.download_button
    exception        \* "" or the exception that ended the last run

vars == <<session_state, wrongAttempts, reg, rpm_drop, opts, m_file, i_file,
          rendered, charts, pdf, download, exception>>

-----------------------------------------------------------------------------
(* Bounds and environment                                                  *)

MaxWrong == 2

Secret == "hangar"
Passwords == {"", "hangar", "wrong1", "wrong2"}
Registrations == {"", "N123AB"}

NoFile == "None"

-----------------------------------------------------------------------------
(* Uploaded tables (the result of pd.read_csv on each uploadable file)     *)

COL_T == "Time (s)"
COL_U == "UNMETERED [PSI]"
COL_M == "METERED [PSI]"

TimeColumn(n) == [k \in 1..n |-> 5 * (k - 1)]

\* max_run has the three columns; its unmetered maximum is single, its
\* metered maximum occurs twice.  idle_run has no METERED column; its
\* minimum occurs twice.  The metered series of max_run and the series of
\* idle_run are symmetric in time, so their smoothed extremes occur twice
\* too.
FileTable ==
    [ max_run   |-> (COL_T :> TimeColumn(9))
                 @@ (COL_U :> <<10, 10, 10, 50, 10, 10, 10, 10, 10>>)
                 @@ (COL_M :> <<19, 22, 19, 19, 19, 19, 19, 22, 19>>),
      idle_run  |-> (COL_T :> TimeColumn(11))
                 @@ (COL_U :> <<9, 9, 7, 9, 9, 9, 9, 9, 7, 9, 9>>) ]

Files == DOMAIN FileTable

read_csv(f) == FileTable[f]

-----------------------------------------------------------------------------
(* Correction table                                                        *)

CORRECTION_MAP ==
    ("Rated RPM (1.000)" :> 1000) @@
    ("-20 RPM (.991)"    :> 991)  @@
    ("-40 RPM (.982)"    :> 982)  @@
    ("-60 RPM (.973)"    :> 973)  @@
    ("-80 RPM (.964)"    :> 964)  @@
    ("-100 RPM (.955)"   :> 955)  @@
    ("-120 RPM (.946)"   :> 946)

CorrectionKeys ==
    << "Rated RPM (1.000)", "-20 RPM (.991)", "-40 RPM (.982)",
       "-60 RPM (.973)", "-80 RPM (.964)", "-100 RPM (.955)",
       "-120 RPM (.946)" >>

FactorUnit == 1000
Scale == 20000

\* a pressure literal given in tenths of a PSI, in units of 1/Scale PSI
PSI10(tenths) == (tenths * Scale) \div 10


-----------------------------------------------------------------------------
(* Library functions used by create_plots                                  *)

\* pandas df[col]: a missing column raises KeyError
has_column(df, col) == col \in DOMAIN df

\* Series.iloc[i] / ndarray[i] with a 0-based position
iloc(s, i) == s[i + 1]

\* scipy.signal.savgol_filter(x, 9, 3): window_length 9, polyorder 3
window_length == 9
halflen == window_length \div 2

\* Least-squares cubic through 9 equally spaced samples, evaluated at each of
\* the 9 positions, times Denom.  Row 5 (the centre) is the convolution
\* kernel used for interior samples, rows 1..4 and 6..9 are the fits that
\* mode="interp" uses for the first and last halflen samples.
Denom == 1386
SavgolRows ==
    << << 1190,  392,  -28, -168, -126,    0,  112,  112,  -98 >>,
       <<  392,  455,  392,  252,   84,  -63, -140,  -98,  112 >>,
       <<  -28,  392,  515,  432,  234,   12, -143, -140,  112 >>,
       << -168,  252,  432,  435,  324,  162,   12,  -63,    0 >>,
       << -126,   84,  234,  324,  354,  324,  234,   84, -126 >>,
       <<    0,  -63,   12,  162,  324,  435,  432,  252, -168 >>,
       <<  112, -140, -143,   12,  234,  432,  515,  392,  -28 >>,
       <<  112,  -98, -140,  -63,   84,  252,  392,  455,  392 >>,
       <<  -98,  112,  112,    0, -126, -168,  -28,  392, 1190 >> >>

\* the weighted sum of the window_length samples of x after offset off
Dot(row, x, off) ==
    row[1] * x[off + 1] + row[2] * x[off + 2] + row[3] * x[off + 3]
      + row[4] * x[off + 4] + row[5] * x[off + 5] + row[6] * x[off + 6]
      + row[7] * x[off + 7] + row[8] * x[off + 8] + row[9] * x[off + 9]

\* savgol_filter raises ValueError unless window_length <= len(x)
savgol_ok(x) == window_length <= Len(x)

\* one filtered sample per input sample
savgol_filter(x) ==
    LET n == Len(x)
    IN  [k \in 1..n |->
            IF k <= halflen
              THEN Dot(SavgolRows[k], x, 0)
            ELSE IF k > n - halflen
              THEN Dot(SavgolRows[window_length - (n - k)], x,
                       n - window_length)
            ELSE Dot(SavgolRows[halflen + 1], x, k - halflen - 1)]

RECURSIVE scan_max_last(_, _, _)
\* scan_max keeping the last maximum (>= in place of >)
scan_max_last(s, k, best) ==
    IF k > Len(s) THEN best
    ELSE scan_max_last(s, k + 1, IF s[k] >= s[best] THEN k ELSE best)

RECURSIVE scan_max(_, _, _)
\* argmax as a left-to-right scan keeping the first strict maximum;
\* best and the result are 1-based positions
scan_max(s, k, best) ==
    IF k > Len(s) THEN best
    ELSE scan_max(s, k + 1, IF s[k] > s[best] THEN k ELSE best)

RECURSIVE scan_min(_, _, _)
scan_min(s, k, best) ==
    IF k > Len(s) THEN best
    ELSE scan_min(s, k + 1, IF s[k] < s[best] THEN k ELSE best)

\* ndarray.argmax() / Series.argmax(): 0-based position
argmax(s) == scan_max(s, 2, 1) - 1

\* ndarray.argmin() / Series.argmin(): 0-based position
argmin(s) == scan_min(s, 2, 1) - 1

\* f"{v:.2f}" for v = num/den: round to hundredths, ties to even, which is
\* what the format does on every value the correction table produces
Digits2(h) == IF h < 10 THEN "0" \o ToString(h) ELSE ToString(h)

Fmt2(num, den) ==
    LET a == IF num < 0 THEN -num ELSE num
        q == (100 * a) \div den
        r == (100 * a) % den
        h == IF 2 * r < den THEN q
             ELSE IF 2 * r > den THEN q + 1
             ELSE IF q % 2 = 0 THEN q ELSE q + 1
    IN  (IF num < 0 THEN "-" ELSE "") \o ToString(h \div 100) \o "."
            \o Digits2(h % 100)

-----------------------------------------------------------------------------
(* Figures: [title, shapes, annotations, data], the parts of a plotly      *)
(* Figure that the script sets (layout.title, layout.shapes,               *)
(* layout.annotations, data).                                              *)

EmptyFigure == [title |-> "", shapes |-> <<>>, annotations |-> <<>>,
                data |-> <<>>]

\* fig.add_shape(type="rect", x0=, x1=, y0=, y1=, fillcolor=, ...)
Rect(x0, x1, y0, y1, fillcolor) ==
    [type |-> "rect", x0 |-> x0, x1 |-> x1, y0 |-> y0, y1 |-> y1,
     fillcolor |-> fillcolor]

\* the annotation add_high_vis_label adds; x_pos in hundredths of the paper
add_high_vis_label(y_val, label_text, label_color, x_pos) ==
    [x |-> x_pos, y |-> y_val, text |-> "<b>" \o label_text \o "</b>",
     color |-> label_color]

X_POS_DEFAULT == 1
X_POS_CALLOUT == 88

\* go.Scatter(x=, y=, name=) drawn as a line
Line(name, x, y) ==
    [name |-> name, mode |-> "lines", x |-> x, y |-> y, text |-> <<>>]

\* go.Scatter(x=[x], y=[y], mode="markers+text", name=, text=[text])
Marker(name, x, y, text) ==
    [name |-> name, mode |-> "markers+text", x |-> <<x>>, y |-> <<y>>,
     text |-> <<text>>]

\* fig.update_layout(title={'text': f"<b>{title_text}</b>", ...})
apply_high_contrast_style(fig, title_text) ==
    [fig EXCEPT !.title = "<b>" \o title_text \o "</b>"]

-----------------------------------------------------------------------------
(* create_plots                                                            *)

\* met_high with the correction left off the upper bound
met_high_uncorrected(factor) == PSI10(213)

\* met_low, met_high = 19.0 * factor, 21.3 * factor
met_low(factor) == (PSI10(190) * factor) \div FactorUnit

met_high(factor) == (PSI10(213) * factor) \div FactorUnit

\* each band is [shapes, annotations]: what the "if" adds to the figure
NoBand == [shapes |-> <<>>, annotations |-> <<>>]

\* TurboUnmBand drawn whatever the toggle says
TurboUnmBand_always(t_m, un_s) ==
    [shapes |-> << Rect(iloc(t_m, 0), iloc(t_m, Len(t_m) - 1),
                        PSI10(210), PSI10(240), "#FFD700") >>,
     annotations |-> << add_high_vis_label(PSI10(225),
                            "Turbo UNMETERED (21-24)", "#8B4513",
                            X_POS_DEFAULT) >>]

\* if un_s: ... (turbo unmetered 21-24)
TurboUnmBand(t_m, un_s) ==
    IF un_s
      THEN [shapes |-> << Rect(iloc(t_m, 0), iloc(t_m, Len(t_m) - 1),
                               PSI10(210), PSI10(240), "#FFD700") >>,
            annotations |-> << add_high_vis_label(PSI10(225),
                                   "Turbo UNMETERED (21-24)", "#8B4513",
                                   X_POS_DEFAULT) >>]
      ELSE NoBand

\* if un_p: ... (non-turbo unmetered 28-30)
NonTurboUnmBand(t_m, un_p) ==
    IF un_p
      THEN [shapes |-> << Rect(iloc(t_m, 0), iloc(t_m, Len(t_m) - 1),
                               PSI10(280), PSI10(300), "#32CD32") >>,
            annotations |-> << add_high_vis_label(PSI10(290),
                                   "Non-Turbo UNMETERED (28-30)", "#006400",
                                   X_POS_DEFAULT) >>]
      ELSE NoBand

\* MeteredCallouts without the test of the factor
MeteredCallouts_always(factor) ==
    << add_high_vis_label(met_high(factor),
           "Max: " \o Fmt2(met_high(factor), Scale), "#00008B",
           X_POS_CALLOUT),
       add_high_vis_label(met_low(factor),
           "Min: " \o Fmt2(met_low(factor), Scale), "#00008B",
           X_POS_CALLOUT) >>

\* if factor != 1.0: the Max and Min callouts
MeteredCallouts(factor) ==
    IF factor # FactorUnit
      THEN << add_high_vis_label(met_high(factor),
                  "Max: " \o Fmt2(met_high(factor), Scale), "#00008B",
                  X_POS_CALLOUT),
              add_high_vis_label(met_low(factor),
                  "Min: " \o Fmt2(met_low(factor), Scale), "#00008B",
                  X_POS_CALLOUT) >>
      ELSE <<>>

\* if met_b: ... (metered band, its label, its callouts)
MeteredBand(t_m, met_b, factor_label, factor) ==
    IF met_b
      THEN [shapes |-> << Rect(iloc(t_m, 0), iloc(t_m, Len(t_m) - 1),
                               met_low(factor), met_high(factor),
                               "#00BFFF") >>,
            annotations |->
                << add_high_vis_label(
                       (met_low(factor) + met_high(factor)) \div 2,
                       "METERED (" \o factor_label \o ")", "#00008B",
                       X_POS_DEFAULT) >>
                \o MeteredCallouts(factor)]
      ELSE NoBand

\* the four line traces of the max-RPM chart
MaxTraces(t_m, u_m, mt_m, u_sm, mt_sm) ==
    << Line("Raw UNM", t_m, u_m),
       Line("Raw MET", t_m, mt_m),
       Line("<b>Smooth UNM</b>", t_m, u_sm),
       Line("<b>Smooth MET</b>", t_m, mt_sm) >>

\* the four maximum markers of the max-RPM chart
MaxMarkers(t_m, u_m, mt_m, u_sm, mt_sm) ==
    LET m_un == argmax(u_sm)
        m_mt == argmax(mt_sm)
        r_un == argmax(u_m)
        r_mt == argmax(mt_m)
    IN  << Marker("Max Smooth UNM", iloc(t_m, m_un), iloc(u_sm, m_un),
                  "<b>" \o Fmt2(iloc(u_sm, m_un), Denom) \o "</b>"),
           Marker("Max Smooth MET", iloc(t_m, m_mt), iloc(mt_sm, m_mt),
                  "<b>" \o Fmt2(iloc(mt_sm, m_mt), Denom) \o "</b>"),
           Marker("Max Raw UNM", iloc(t_m, r_un), iloc(u_m, r_un),
                  Fmt2(iloc(u_m, r_un), 1)),
           Marker("Max Raw MET", iloc(t_m, r_mt), iloc(mt_m, r_mt),
                  Fmt2(iloc(mt_m, r_mt), 1)) >>

\* fig_max, given the three columns of df_max
FigMax(t_m, u_m, mt_m, opt, registration, factor_label, factor) ==
    LET un_p  == opt[1]
        un_s  == opt[2]
        met_b == opt[3]
        u_sm  == savgol_filter(u_m)
        mt_sm == savgol_filter(mt_m)
        b1    == TurboUnmBand(t_m, un_s)
        b2    == NonTurboUnmBand(t_m, un_p)
        b3    == MeteredBand(t_m, met_b, factor_label, factor)
    IN  apply_high_contrast_style(
            [EmptyFigure EXCEPT
                !.shapes = b1.shapes \o b2.shapes \o b3.shapes,
                !.annotations = b1.annotations \o b2.annotations
                                    \o b3.annotations,
                !.data = MaxTraces(t_m, u_m, mt_m, u_sm, mt_sm)
                             \o MaxMarkers(t_m, u_m, mt_m, u_sm, mt_sm)],
            "Max RPM Fuel Pressure - " \o registration)

\* IdleBand with the fifth toggle wired to a 7-9 band
IdleBand_wired(t_i, id_p, id_s) ==
    LET p == IF id_p
               THEN [shapes |-> << Rect(iloc(t_i, 0), iloc(t_i, Len(t_i) - 1),
                                        PSI10(80), PSI10(100), "#32CD32") >>,
                     annotations |-> << add_high_vis_label(PSI10(90),
                                            "Non-Turbo Idle (8-10)",
                                            "#006400", X_POS_DEFAULT) >>]
               ELSE NoBand
        t == IF id_s
               THEN [shapes |-> << Rect(iloc(t_i, 0), iloc(t_i, Len(t_i) - 1),
                                        PSI10(70), PSI10(90), "#FFD700") >>,
                     annotations |-> << add_high_vis_label(PSI10(80),
                                            "Turbo Idle (7-9)", "#8B4513",
                                            X_POS_DEFAULT) >>]
               ELSE NoBand
    IN  [shapes |-> p.shapes \o t.shapes,
         annotations |-> p.annotations \o t.annotations]

\* if id_p: ... (non-turbo idle 8-10); id_s is unpacked and never read
IdleBand(t_i, id_p, id_s) ==
    IF id_p
      THEN [shapes |-> << Rect(iloc(t_i, 0), iloc(t_i, Len(t_i) - 1),
                               PSI10(80), PSI10(100), "#32CD32") >>,
            annotations |-> << add_high_vis_label(PSI10(90),
                                   "Non-Turbo Idle (8-10)", "#006400",
                                   X_POS_DEFAULT) >>]
      ELSE NoBand

IdleTraces(t_i, u_i, u_si) ==
    << Line("Raw UNM", t_i, u_i),
       Line("<b>Smooth UNM</b>", t_i, u_si) >>

IdleMarkers(t_i, u_i, u_si) ==
    LET mi_un == argmin(u_si)
        mi_r  == argmin(u_i)
    IN  << Marker("Min Smooth UNM", iloc(t_i, mi_un), iloc(u_si, mi_un),
                  "<b>" \o Fmt2(iloc(u_si, mi_un), Denom) \o "</b>"),
           Marker("Min Raw UNM", iloc(t_i, mi_r), iloc(u_i, mi_r),
                  Fmt2(iloc(u_i, mi_r), 1)) >>

\* fig_idle, given the two columns of df_idle
FigIdle(t_i, u_i, opt, registration) ==
    LET id_p == opt[4]
        id_s == opt[5]
        u_si == savgol_filter(u_i)
        b    == IdleBand(t_i, id_p, id_s)
    IN  apply_high_contrast_style(
            [EmptyFigure EXCEPT
                !.shapes = b.shapes,
                !.annotations = b.annotations,
                !.data = IdleTraces(t_i, u_i, u_si)
                             \o IdleMarkers(t_i, u_i, u_si)],
            "Idle RPM Fuel Pressure - " \o registration)

\* max_columns with a missing METERED column filled from the unmetered one
max_columns_fill(df_max) ==
    IF has_column(df_max, COL_T) /\ has_column(df_max, COL_U)
      THEN [ok |-> TRUE, t |-> df_max[COL_T], u |-> df_max[COL_U],
            mt |-> IF has_column(df_max, COL_M) THEN df_max[COL_M]
                   ELSE df_max[COL_U]]
      ELSE [ok |-> FALSE, t |-> <<>>, u |-> <<>>, mt |-> <<>>]

\* t_m, u_m, mt_m = df_max["Time (s)"], df_max["UNMETERED [PSI]"],
\* df_max["METERED [PSI]"]: ok is FALSE when a lookup raises KeyError
max_columns(df_max) ==
    IF has_column(df_max, COL_T) /\ has_column(df_max, COL_U)
         /\ has_column(df_max, COL_M)
      THEN [ok |-> TRUE, t |-> df_max[COL_T], u |-> df_max[COL_U],
            mt |-> df_max[COL_M]]
      ELSE [ok |-> FALSE, t |-> <<>>, u |-> <<>>, mt |-> <<>>]

\* t_i, u_i = df_idle["Time (s)"], df_idle["UNMETERED [PSI]"]
idle_columns(df_idle) ==
    IF has_column(df_idle, COL_T) /\ has_column(df_idle, COL_U)
      THEN [ok |-> TRUE, t |-> df_idle[COL_T], u |-> df_idle[COL_U]]
      ELSE [ok |-> FALSE, t |-> <<>>, u |-> <<>>]

\* The result of a call: [error, figs].  error = "" and figs = <<fig_max,
\* fig_idle>> when the call returns, else the exception raised and no figure.
Raised(e) == [error |-> e, figs |-> <<>>]

create_plots(df_max, df_idle, opt, registration, factor_label, factor) ==
    LET m == max_columns(df_max)
        i == idle_columns(df_idle)
    IN  IF ~ m.ok THEN Raised("KeyError")
        ELSE IF ~ (savgol_ok(m.u) /\ savgol_ok(m.mt))
          THEN Raised("ValueError")
        ELSE IF ~ i.ok THEN Raised("KeyError")
        ELSE IF ~ savgol_ok(i.u) THEN Raised("ValueError")
        ELSE [error |-> "",
              figs  |-> << FigMax(m.t, m.u, m.mt, opt, registration,
                                  factor_label, factor),
                           FigIdle(i.t, i.u, opt, registration) >>]

-----------------------------------------------------------------------------
(* Password gate                                                           *)

Has(ss, key) == key \in DOMAIN ss

\* st.session_state[key] = value
SetItem(ss, key, value) ==
    [k \in DOMAIN ss \cup {key} |-> IF k = key THEN value ELSE ss[k]]

\* del st.session_state[key]
DelItem(ss, key) == [k \in DOMAIN ss \ {key} |-> ss[k]]

\* password_entered that accepts the secret only while no attempt has failed
password_entered_lockout(ss) ==
    IF ss["password"] = Secret /\ ~ Has(ss, "password_correct")
      THEN DelItem(SetItem(ss, "password_correct", TRUE), "password")
      ELSE SetItem(ss, "password_correct", FALSE)

\* the on_change callback of the password input
password_entered(ss) ==
    IF ss["password"] = Secret
      THEN DelItem(SetItem(ss, "password_correct", TRUE), "password")
      ELSE SetItem(ss, "password_correct", FALSE)

GatePrompt == << "title:Hangar Access Required", "text_input:password" >>
GateDenied == GatePrompt \o << "error:Access Denied" >>

\* check_password with the test of the flag's value inverted
check_password_inverted(ss) ==
    IF ~ Has(ss, "password_correct")
      THEN [ret |-> FALSE, out |-> GatePrompt]
    ELSE IF ss["password_correct"]
      THEN [ret |-> FALSE, out |-> GateDenied]
    ELSE [ret |-> TRUE, out |-> <<>>]

\* check_password that lets a session without the flag through
check_password_open(ss) ==
    IF Has(ss, "password_correct") /\ ~ ss["password_correct"]
      THEN [ret |-> FALSE, out |-> GateDenied]
    ELSE [ret |-> TRUE, out |-> <<>>]

\* check_password(): [ret, out], the value returned and the elements drawn
check_password(ss) ==
    IF ~ Has(ss, "password_correct")
      THEN [ret |-> FALSE, out |-> GatePrompt]
    ELSE IF ~ ss["password_correct"]
      THEN [ret |-> FALSE, out |-> GateDenied]
    ELSE [ret |-> TRUE, out |-> <<>>]

-----------------------------------------------------------------------------
(* PDF export                                                              *)

\* fig.to_image(format="png", width=1200, height=700, scale=2)
to_image(fig) ==
    [format |-> "png", width |-> 1200, height |-> 700, scale |-> 2,
     of |-> fig.title]

\* the list the export loop iterates over
ExportItems(f_m, f_id) ==
    << [title |-> "Max RPM", fig |-> f_m],
       [title |-> "Idle RPM", fig |-> f_id] >>

\* one page: the two text cells and the image (the timestamp is left out)
Page(title, fig, registration, factor_label) ==
    [title |-> title \o " | " \o registration,
     condition |-> "Condition: " \o factor_label,
     image |-> to_image(fig)]

RECURSIVE ExportLoop_skip(_, _, _, _, _, _)
\* ExportLoop that skips a chart whose rasterization fails and goes on
ExportLoop_skip(items, k, raster, pages, registration, factor_label) ==
    IF k > Len(items) THEN [pages |-> pages, error |-> ""]
    ELSE IF ~ raster[k]
      THEN ExportLoop_skip(items, k + 1, raster, pages, registration,
                           factor_label)
    ELSE ExportLoop_skip(items, k + 1, raster,
                         Append(pages, Page(items[k].title, items[k].fig,
                                            registration, factor_label)),
                         registration, factor_label)

RECURSIVE ExportLoop(_, _, _, _, _, _)
\* The for loop from item k on.  raster[k] says whether to_image succeeds
\* on item k; when it does not, the exception leaves the loop with the
\* pages added so far.  Result: [pages, error].
ExportLoop(items, k, raster, pages, registration, factor_label) ==
    IF k > Len(items) THEN [pages |-> pages, error |-> ""]
    ELSE IF ~ raster[k] THEN [pages |-> pages, error |-> "ImageExportError"]
    ELSE ExportLoop(items, k + 1, raster,
                    Append(pages, Page(items[k].title, items[k].fig,
                                       registration, factor_label)),
                    registration, factor_label)

\* the body of "if st.button(...)": [pages, error, download]
GeneratePdf(f_m, f_id, registration, factor_label, raster) ==
    LET r == ExportLoop(ExportItems(f_m, f_id), 1, raster, <<>>,
                        registration, factor_label)
    IN  IF r.error # ""
          THEN [pages |-> r.pages, error |-> r.error, download |-> <<>>]
          ELSE [pages |-> r.pages, error |-> "",
                download |-> << [label |-> "Download PDF Report",
                                 data |-> r.pages,
                                 file_name |-> registration \o "_Report.pdf",
                                 mime |-> "application/pdf"] >>]

-----------------------------------------------------------------------------
(* One run of the script                                                   *)

Sidebar ==
    << "header:1. Aircraft & Correction", "text_input:Registration",
       "selectbox:Achieved RPM Drop", "header:2. Analysis Options",
       "checkbox:un_p", "checkbox:un_s", "checkbox:met_b", "checkbox:id_p",
       "checkbox:id_s" >>

Uploaders == << "file_uploader:max", "file_uploader:idle" >>

MainHead == << "title:Fuel Pressure Diagnostic Tool" >> \o Sidebar
                \o Uploaders

ChartElems == << "plotly_chart:max", "plotly_chart:idle" >>

Out(r, c, p, d, e) ==
    [rendered |-> r, charts |-> c, pdf |-> p, download |-> d,
     exception |-> e]

\* lines 142-172: the part of the run after the uploaders
UploadBlock(registration, factor_label, opt, mf, idf, button, raster) ==
    IF mf = NoFile \/ idf = NoFile
      THEN Out(MainHead, <<>>, <<>>, <<>>, "")
    ELSE
      LET cp == create_plots(read_csv(mf), read_csv(idf), opt, registration,
                             factor_label, CORRECTION_MAP[factor_label])
      IN  IF cp.error # ""
            THEN Out(MainHead \o << "exception" >>, <<>>, <<>>, <<>>,
                     cp.error)
          ELSE IF ~ button
            THEN Out(MainHead \o ChartElems \o << "button:Generate PDF" >>,
                     cp.figs, <<>>, <<>>, "")
          ELSE
            LET g == GeneratePdf(cp.figs[1], cp.figs[2], registration,
                                 factor_label, raster)
                upto == MainHead \o ChartElems \o << "button:Generate PDF" >>
            IN  IF g.error # ""
                  THEN Out(upto \o << "exception" >>, cp.figs, g.pages,
                           <<>>, g.error)
                  ELSE Out(upto \o << "download_button" >>, cp.figs,
                           g.pages, g.download, "")

\* the whole script: the gate, then the page
Script(ss, registration, factor_label, opt, mf, idf, button, raster) ==
    LET gate == check_password(ss)
    IN  IF ~ gate.ret
          THEN Out(gate.out, <<>>, <<>>, <<>>, "")
          ELSE UploadBlock(registration, factor_label, opt, mf, idf, button,
                           raster)

-----------------------------------------------------------------------------
(* The session                                                             *)

Shown(e) == \E k \in DOMAIN rendered : rendered[k] = e

DefaultOpts == << TRUE, FALSE, TRUE, TRUE, FALSE >>

\* st.session_state of a session that has run nothing yet
EmptySession == [k \in {} |-> TRUE]

\* A widget drawn with key="password" has its value in session_state: a run
\* that draws the password input registers the key, with the empty text,
\* unless the key is there already.
RegisterWidgets(ss, r) ==
    IF (\E k \in DOMAIN r : r[k] = "text_input:password")
         /\ ~ Has(ss, "password")
      THEN SetItem(ss, "password", "")
      ELSE ss

\* the run caused by an interaction, on the session as the interaction and
\* its callback left it
Rerun(ss, registration, factor_label, opt, mf, idf, button, raster) ==
    \E o \in { Script(ss, registration, factor_label, opt, mf, idf, button,
                      raster) } :
        /\ session_state' = RegisterWidgets(ss, o.rendered)
        /\ rendered' = o.rendered
        /\ charts' = o.charts
        /\ pdf' = o.pdf
        /\ download' = o.download
        /\ exception' = o.exception

\* the first run of a new session, every widget at its default
Init ==
    /\ wrongAttempts = 0
    /\ reg = ""
    /\ rpm_drop = CorrectionKeys[1]
    /\ opts = DefaultOpts
    /\ m_file = NoFile
    /\ i_file = NoFile
    /\ \E o \in { Script(EmptySession, "", CorrectionKeys[1], DefaultOpts,
                         NoFile, NoFile, FALSE, << TRUE, TRUE >>) } :
           /\ session_state = RegisterWidgets(EmptySession, o.rendered)
           /\ rendered = o.rendered
           /\ charts = o.charts
           /\ pdf = o.pdf
           /\ download = o.download
           /\ exception = o.exception

\* The user submits p in the password input.  on_change fires only when the
\* value differs from the widget's current one.
EnterPassword(p) ==
    /\ Shown("text_input:password")
    /\ p # session_state["password"]
    /\ Rerun(password_entered(SetItem(session_state, "password", p)), reg,
             rpm_drop, opts, m_file, i_file, FALSE, << TRUE, TRUE >>)
    /\ wrongAttempts' = IF p = Secret THEN 0
                        ELSE IF wrongAttempts < MaxWrong
                          THEN wrongAttempts + 1
                        ELSE wrongAttempts
    /\ UNCHANGED << reg, rpm_drop, opts, m_file, i_file >>

SetRegistration(r) ==
    /\ Shown("text_input:Registration")
    /\ r # reg
    /\ reg' = r
    /\ Rerun(session_state, r, rpm_drop, opts, m_file, i_file, FALSE,
             << TRUE, TRUE >>)
    /\ UNCHANGED << wrongAttempts, rpm_drop, opts, m_file,
                    i_file >>

SelectRpmDrop(l) ==
    /\ Shown("selectbox:Achieved RPM Drop")
    /\ l # rpm_drop
    /\ rpm_drop' = l
    /\ Rerun(session_state, reg, l, opts, m_file, i_file, FALSE,
             << TRUE, TRUE >>)
    /\ UNCHANGED << wrongAttempts, reg, opts, m_file,
                    i_file >>

\* the user flips checkbox k of the five
ToggleOption(k) ==
    /\ Shown("checkbox:id_s")
    /\ opts' = [opts EXCEPT ![k] = ~ @]
    /\ Rerun(session_state, reg, rpm_drop, opts', m_file, i_file, FALSE,
             << TRUE, TRUE >>)
    /\ UNCHANGED << wrongAttempts, reg, rpm_drop, m_file,
                    i_file >>

\* the user puts f in the max-RPM uploader, or clears it (f = NoFile)
UploadMax(f) ==
    /\ Shown("file_uploader:max")
    /\ f # m_file
    /\ m_file' = f
    /\ Rerun(session_state, reg, rpm_drop, opts, f, i_file, FALSE,
             << TRUE, TRUE >>)
    /\ UNCHANGED << wrongAttempts, reg, rpm_drop, opts,
                    i_file >>

UploadIdle(f) ==
    /\ Shown("file_uploader:idle")
    /\ f # i_file
    /\ i_file' = f
    /\ Rerun(session_state, reg, rpm_drop, opts, m_file, f, FALSE,
             << TRUE, TRUE >>)
    /\ UNCHANGED << wrongAttempts, reg, rpm_drop, opts,
                    m_file >>

\* The user presses "Generate PDF Report"; st.button is True in this run
\* only.  raster[k] is whether the image backend renders chart k.
PressGenerate(raster) ==
    /\ Shown("button:Generate PDF")
    /\ Rerun(session_state, reg, rpm_drop, opts, m_file, i_file, TRUE,
             raster)
    /\ UNCHANGED << wrongAttempts, reg, rpm_drop, opts,
                    m_file, i_file >>

\* The user clicks the download button: a rerun in which st.button is False
ClickDownload ==
    /\ Shown("download_button")
    /\ Rerun(session_state, reg, rpm_drop, opts, m_file, i_file, FALSE,
             << TRUE, TRUE >>)
    /\ UNCHANGED << wrongAttempts, reg, rpm_drop, opts,
                    m_file, i_file >>

Next ==
    \/ \E p \in Passwords : EnterPassword(p)
    \/ \E r \in Registrations : SetRegistration(r)
    \/ \E l \in DOMAIN CORRECTION_MAP : SelectRpmDrop(l)
    \/ \E k \in 1..5 : ToggleOption(k)
    \/ \E f \in Files \cup {NoFile} : UploadMax(f)
    \/ \E f \in Files \cup {NoFile} : UploadIdle(f)
    \/ \E raster \in [1..2 -> BOOLEAN] : PressGenerate(raster)
    \/ ClickDownload

Spec == Init /\ [][Next]_vars

-----------------------------------------------------------------------------
(* Properties                                                              *)

FlagTrue(ss) == Has(ss, "password_correct") /\ ss["password_correct"] = TRUE

IsPrefix(a, b) == Len(a) <= Len(b) /\ \A k \in DOMAIN a : a[k] = b[k]

\* the run got past the gate: the page starts with the main title, the
\* sidebar and the uploaders, and holds no gate element
PagePast(r) ==
    /\ IsPrefix(MainHead, r)
    /\ \A k \in DOMAIN r : \A g \in DOMAIN GateDenied : r[k] # GateDenied[g]

AllFalse == << FALSE, FALSE, FALSE, FALSE, FALSE >>

BothUploaded == m_file # NoFile /\ i_file # NoFile

\* C1: once password_correct is True it is True after every later
\* interaction of the session, and every such rerun gets past the gate
\* (check_password returns True: the main page is drawn, not the prompt).
C1_FlagPersists ==
    [][ FlagTrue(session_state)
          => /\ FlagTrue(session_state')
             /\ PagePast(rendered') ]_vars

C1_Witness ==
    /\ FlagTrue(session_state)
    /\ opts # DefaultOpts
    /\ BothUploaded
    /\ download # <<>>
    /\ PagePast(rendered)

\* C2: whatever number of wrong passwords came before, a wrong password
\* leaves the flag False and the gate showing the error and the password
\* input again, and the password equal to the secret sets the flag True and
\* gets past the gate.
C2_RetryNoPenalty ==
    [][ \A p \in Passwords :
          EnterPassword(p)
            => IF p = Secret
                 THEN /\ FlagTrue(session_state')
                      /\ PagePast(rendered')
                 ELSE /\ Has(session_state', "password_correct")
                      /\ session_state'["password_correct"] = FALSE
                      /\ rendered' = GateDenied ]_vars

C2_Witness ==
    /\ wrongAttempts = MaxWrong
    /\ rendered = GateDenied
    /\ session_state["password"] # Secret

\* C3: the download button is on the page only with a payload of two
\* pages, the rasterized max-RPM chart first and the rasterized idle chart
\* second; a run in which a rasterization failed ends with that exception,
\* fewer than two pages and no download button, and a PDF of fewer than two
\* pages exists only in such a run.
C3_ExportAllOrNothing ==
    /\ Shown("download_button") <=> download # <<>>
    /\ download # <<>>
         => /\ exception = ""
            /\ charts # <<>>
            /\ download[1].data = pdf
            /\ Len(pdf) = 2
            /\ pdf[1].title = "Max RPM | " \o reg
            /\ pdf[1].image = to_image(charts[1])
            /\ pdf[2].title = "Idle RPM | " \o reg
            /\ pdf[2].image = to_image(charts[2])
    /\ exception = "ImageExportError"
         => /\ download = <<>>
            /\ Len(pdf) < 2
    /\ (pdf # <<>> /\ Len(pdf) < 2) => exception = "ImageExportError"

C3_Witness ==
    /\ exception = "ImageExportError"
    /\ Len(pdf) = 1
    /\ download = <<>>
    /\ ~ Shown("download_button")

\* C4: with both files uploaded and no METERED [PSI] column in the max-RPM
\* table, the run ends in KeyError with no figure, no chart on the page, no
\* Generate PDF button and no download.
C4_MissingMeteredFails ==
    (BothUploaded /\ COL_M \notin DOMAIN read_csv(m_file))
      => /\ exception = "KeyError"
         /\ charts = <<>>
         /\ ~ Shown("plotly_chart:max")
         /\ ~ Shown("plotly_chart:idle")
         /\ ~ Shown("button:Generate PDF")
         /\ ~ Shown("download_button")
         /\ pdf = <<>>
         /\ download = <<>>

C4_Witness ==
    /\ m_file = "idle_run"
    /\ i_file = "idle_run"
    /\ FlagTrue(session_state)
    /\ exception = "KeyError"

\* C5: the charts drawn for any toggle combination have the same title,
\* line traces and markers as the charts create_plots builds from the same
\* inputs with all five toggles false, and with all five toggles false
\* neither chart holds a shape (or a band label).
C5_TogglesOnlyBands ==
    charts # <<>>
      => /\ \A ref \in { create_plots(read_csv(m_file), read_csv(i_file),
                                      AllFalse, reg, rpm_drop,
                                      CORRECTION_MAP[rpm_drop]).figs } :
              \A c \in 1..2 : /\ charts[c].data = ref[c].data
                              /\ charts[c].title = ref[c].title
         /\ opts = AllFalse
              => \A c \in 1..2 : /\ charts[c].shapes = <<>>
                                 /\ charts[c].annotations = <<>>

C5_Witness ==
    /\ charts # <<>>
    /\ opts = AllFalse
    /\ charts[1].shapes = <<>>
    /\ charts[2].shapes = <<>>
    /\ Len(charts[1].data) = 8
    /\ Len(charts[2].data) = 4

\* the shapes of the max-RPM chart drawn in the metered band's colour
MeteredShapes ==
    { k \in DOMAIN charts[1].shapes :
        charts[1].shapes[k].fillcolor = "#00BFFF" }

\* C6: whenever the metered band is drawn, for the selected multiplier f of
\* CORRECTION_MAP its lower bound is 19.0*f, its upper bound 21.3*f, and
\* the lower bound is below the upper.
C6_MeteredBounds ==
    (charts # <<>> /\ opts[3])
      => /\ MeteredShapes # {}
         /\ \A k \in MeteredShapes :
              LET sh == charts[1].shapes[k]
                  f  == CORRECTION_MAP[rpm_drop]
              IN  /\ sh.y0 * FactorUnit = PSI10(190) * f
                  /\ sh.y1 * FactorUnit = PSI10(213) * f
                  /\ sh.y0 < sh.y1

C6_Witness ==
    /\ charts # <<>>
    /\ opts[3]
    /\ rpm_drop = "-120 RPM (.946)"
    /\ MeteredShapes # {}

\* the annotations of the max-RPM chart that are the metered band's label,
\* and those placed at the callouts' x position
MeteredLabels ==
    { k \in DOMAIN charts[1].annotations :
        charts[1].annotations[k].text
            = "<b>METERED (" \o rpm_drop \o ")</b>" }

Callouts ==
    { k \in DOMAIN charts[1].annotations :
        charts[1].annotations[k].x = X_POS_CALLOUT }

\* C7: with the metered toggle on there is one metered band and one name
\* label, and the callouts are two (one at each bound) for the six
\* selections other than Rated RPM and none for Rated RPM; with the toggle
\* off there is no metered band, label or callout.
C7_Callouts ==
    charts # <<>>
      => IF opts[3]
           THEN /\ Cardinality(MeteredShapes) = 1
                /\ Cardinality(MeteredLabels) = 1
                /\ Cardinality(Callouts)
                     = IF rpm_drop = "Rated RPM (1.000)" THEN 0 ELSE 2
                /\ \A k \in MeteredShapes :
                      { charts[1].annotations[c].y : c \in Callouts }
                        = IF rpm_drop = "Rated RPM (1.000)" THEN {}
                          ELSE { charts[1].shapes[k].y0,
                                 charts[1].shapes[k].y1 }
           ELSE /\ MeteredShapes = {}
                /\ MeteredLabels = {}
                /\ Callouts = {}

C7_Witness ==
    /\ charts # <<>>
    /\ opts[3]
    /\ rpm_drop = "-20 RPM (.991)"
    /\ Cardinality(Callouts) = 2

\* the 0-based positions at which series y takes value v
PositionsOf(y, v) == { i \in 0..(Len(y) - 1) : iloc(y, i) = v }

IsMaxOf(y, v) == PositionsOf(y, v) # {} /\ \A k \in DOMAIN y : y[k] <= v
IsMinOf(y, v) == PositionsOf(y, v) # {} /\ \A k \in DOMAIN y : y[k] >= v

\* marker mk is one point, at the lowest position of line ln holding the
\* marker's value
AtFirst(mk, ln) ==
    /\ Len(mk.x) = 1
    /\ Len(mk.y) = 1
    /\ \E i \in PositionsOf(ln.y, mk.y[1]) :
          /\ \A j \in PositionsOf(ln.y, mk.y[1]) : i <= j
          /\ mk.x[1] = iloc(ln.x, i)

\* C8: each of the four markers of the max-RPM chart is one point at the
\* lowest position of the maximum of its series (position 3 for the raw
\* series 10,10,10,50,10,...), and each of the two markers of the idle
\* chart one point at the lowest position of the minimum of its series.
C8_FirstExtremum ==
    charts # <<>>
      => LET d == charts[1].data
             e == charts[2].data
         IN  /\ \A c \in 1..4 :
                   LET ln == d[IF c <= 2 THEN c + 2 ELSE c - 2]
                       mk == d[4 + c]
                   IN  IsMaxOf(ln.y, mk.y[1]) /\ AtFirst(mk, ln)
             /\ \A c \in 1..2 :
                   LET ln == e[3 - c]
                       mk == e[2 + c]
                   IN  IsMinOf(ln.y, mk.y[1]) /\ AtFirst(mk, ln)
             /\ d[1].y = <<10, 10, 10, 50, 10, 10, 10, 10, 10>>
                  => d[7].x = << iloc(d[1].x, 3) >>

C8_Witness ==
    /\ charts # <<>>
    /\ i_file = "idle_run"
    /\ Cardinality(PositionsOf(charts[1].data[2].y,
                               charts[1].data[8].y[1])) = 2
    /\ Cardinality(PositionsOf(charts[1].data[4].y,
                               charts[1].data[6].y[1])) = 2
    /\ Cardinality(PositionsOf(charts[2].data[1].y,
                               charts[2].data[4].y[1])) = 2
    /\ Cardinality(PositionsOf(charts[2].data[2].y,
                               charts[2].data[3].y[1])) = 2

\* C9: the charts drawn are the ones create_plots builds with the fifth
\* toggle flipped, and the idle chart holds at most one shape, which spans
\* 8.0 to 10.0 and never 7.0 to 9.0.
C9_IdleTurboUnwired ==
    charts # <<>>
      => /\ charts = create_plots(read_csv(m_file), read_csv(i_file),
                                  [opts EXCEPT ![5] = ~ @], reg, rpm_drop,
                                  CORRECTION_MAP[rpm_drop]).figs
         /\ Len(charts[2].shapes) <= 1
         /\ \A k \in DOMAIN charts[2].shapes :
              /\ charts[2].shapes[k].y0 = PSI10(80)
              /\ charts[2].shapes[k].y1 = PSI10(100)
              /\ ~ (charts[2].shapes[k].y0 = PSI10(70)
                      /\ charts[2].shapes[k].y1 = PSI10(90))

C9_Witness ==
    /\ charts # <<>>
    /\ opts[5]
    /\ ~ opts[4]
    /\ charts[2].shapes = <<>>

\* C10: a page holding anything but the gate's elements, a chart, a PDF
\* page or a download exists only while password_correct is True; while it
\* is absent or False the page is exactly the password prompt, with the
\* Access Denied error only after a wrong attempt.
C10_GateSafety ==
    /\ ( \/ \E k \in DOMAIN rendered :
              \A g \in DOMAIN GateDenied : rendered[k] # GateDenied[g]
         \/ charts # <<>>
         \/ pdf # <<>>
         \/ download # <<>> )
          => FlagTrue(session_state)
    /\ ~ FlagTrue(session_state)
          => /\ rendered = GatePrompt \/ rendered = GateDenied
             /\ charts = <<>> /\ pdf = <<>> /\ download = <<>>
    /\ Shown("error:Access Denied")
          => /\ wrongAttempts >= 1
             /\ ~ FlagTrue(session_state)

C10_Witness ==
    /\ rendered = GateDenied
    /\ wrongAttempts >= 1
    /\ ~ FlagTrue(session_state)

====
